---- MODULE Spec2Model ----
(***************************************************************************)
(* A model of yar's router: createRoute / createRouter / getRoute of       *)
(* src/src/router.ts, the schema helpers of src/src/__tests__/test-helpers *)
(* and the route registry and matcher the router delegates to.             *)
(*                                                                         *)
(* Strings are sequences of tokens: "/", ":" and "*" are the characters    *)
(* the pattern syntax gives a meaning to, every other token is a run of    *)
(* ordinary characters.  "/users/:id" is <<"/", "users", "/", ":", "id">>. *)
(* JavaScript values are tagged records so that undefined, null and        *)
(* objects stay distinct and comparable.                                   *)
(***************************************************************************)
EXTENDS Integers, Sequences, FiniteSets, TLC

VARIABLES phase, routes, routerContext, internalRouter, last, memo, calls, heap

vars == <<phase, routes, routerContext, internalRouter, last, memo, calls, heap>>

(* ------------------------------ bounds -------------------------------- *)

\* the largest number of routes handed to createRouter
MaxRoutes == 2

(* --------------------------- JavaScript values ------------------------ *)

Undefined == [t |-> "undefined", e |-> <<>>]

Null == [t |-> "null", e |-> <<>>]

\* an object literal, its own enumerable entries in insertion order
Obj(entries) == [t |-> "object", e |-> entries]

EmptyObj == Obj(<<>>)

\* a query entry key=value with a string value
StrEntry(key, s) == [k |-> key, a |-> FALSE, v |-> <<s>>]

\* a query entry key=[...] with a string-array value
ArrEntry(key, ss) == [k |-> key, a |-> TRUE, v |-> ss]

\* a params entry name=captured text
ParamEntry(name, text) == [k |-> name, v |-> text]

\* x ?? y
Coalesce(x, y) == IF x.t \in {"undefined", "null"} THEN y ELSE x

\* obj[key] of an object whose entries have unique keys
HasKey(obj, key) == \E i \in 1..Len(obj.e) : obj.e[i].k = key

EntryOf(obj, key) == obj.e[CHOOSE i \in 1..Len(obj.e) : obj.e[i].k = key]

(* ------------------------------ strings ------------------------------- *)

RECURSIVE splitFrom(_, _, _)
splitFrom(path, i, cur) ==
    LET done == IF cur = <<>> THEN <<>> ELSE <<cur>>
    IN  IF i > Len(path) THEN done
        ELSE IF path[i] = "/" THEN done \o splitFrom(path, i + 1, <<>>)
        ELSE splitFrom(path, i + 1, Append(cur, path[i]))

\* the non-empty components of a path
splitPath(path) == splitFrom(path, 1, <<>>)

RECURSIVE joinFrom(_, _)
joinFrom(segments, i) ==
    IF i > Len(segments) THEN <<>>
    ELSE IF i = Len(segments) THEN segments[i]
    ELSE segments[i] \o <<"/">> \o joinFrom(segments, i + 1)

(* -------------------------- pattern compiler -------------------------- *)

compileSegment(seg) ==
    IF seg[1] = ":" THEN [kind |-> "Param", text |-> Tail(seg)]
    ELSE IF seg = <<"*">> THEN [kind |-> "Wildcard", text |-> <<"_">>]
    ELSE IF Len(seg) >= 2 /\ seg[1] = "*" /\ seg[2] = ":"
         THEN [kind |-> "Wildcard", text |-> SubSeq(seg, 3, Len(seg))]
    ELSE IF Len(seg) >= 3 /\ seg[1] = "*" /\ seg[2] = "*" /\ seg[3] = ":"
         THEN [kind |-> "CatchAll", text |-> SubSeq(seg, 4, Len(seg))]
    ELSE [kind |-> "Literal", text |-> seg]

compilePattern(path) ==
    LET segs == splitPath(path)
    IN  [i \in 1..Len(segs) |-> compileSegment(segs[i])]

\* PatternError: a catch-all before the end, or one name bound twice
patternError(pattern) ==
    \/ \E i \in 1..Len(pattern) : pattern[i].kind = "CatchAll" /\ i < Len(pattern)
    \/ \E i, j \in 1..Len(pattern) :
          /\ i < j
          /\ pattern[i].kind # "Literal" /\ pattern[j].kind # "Literal"
          /\ pattern[i].text = pattern[j].text

(* ---------------------------- route registry -------------------------- *)

\* the registry is a trie; a node is named by the edges leading to it
StaticEdge(seg) == [e |-> "static", s |-> seg]

ParamEdge == [e |-> "param", s |-> <<>>]

WildcardEdge == [e |-> "wildcard", s |-> <<>>]

edgeOf(segment) ==
    IF segment.kind = "Literal" THEN StaticEdge(segment.text)
    ELSE IF segment.kind = "CatchAll" THEN WildcardEdge
    ELSE ParamEdge

nodeOf(pattern) == [i \in 1..Len(pattern) |-> edgeOf(pattern[i])]

EmptyRegistry == [n \in {} |-> <<>>]

entriesAt(registry, node) ==
    IF node \in DOMAIN registry THEN registry[node] ELSE <<>>

\* insert(pattern, route): an identical pattern overwrites the earlier
\* registration in place, any other pattern of the node queues behind
insert(registry, path, data) ==
    LET pattern == compilePattern(path)
        node    == nodeOf(pattern)
        old     == entriesAt(registry, node)
        entry   == [path |-> path, pattern |-> pattern, data |-> data]
        same    == {i \in 1..Len(old) : old[i].path = path}
        new     == IF same = {} THEN Append(old, entry)
                   ELSE [i \in 1..Len(old) |-> IF i \in same THEN entry ELSE old[i]]
    IN  [n \in (DOMAIN registry) \cup {node} |-> IF n = node THEN new ELSE registry[n]]

(* ------------------------------- matcher ------------------------------ *)

RECURSIVE lookupTree(_, _, _, _)
lookupTree(registry, node, segments, index) ==
    IF index > Len(segments) THEN entriesAt(registry, node)
    ELSE
      LET viaStatic == lookupTree(registry, Append(node, StaticEdge(segments[index])),
                                  segments, index + 1)
          viaParam  == lookupTree(registry, Append(node, ParamEdge), segments, index + 1)
      IN  IF viaStatic # <<>> THEN viaStatic
          ELSE IF viaParam # <<>> THEN viaParam
          ELSE entriesAt(registry, Append(node, WildcardEdge))

\* the value a non-literal segment at position i captures
captured(pattern, segments, i) ==
    IF pattern[i].kind = "CatchAll" THEN joinFrom(segments, i) ELSE segments[i]

RECURSIVE bindFrom(_, _, _)
bindFrom(pattern, segments, i) ==
    IF i > Len(pattern) THEN <<>>
    ELSE IF pattern[i].kind = "Literal" THEN bindFrom(pattern, segments, i + 1)
    ELSE <<ParamEntry(pattern[i].text, captured(pattern, segments, i))>>
            \o bindFrom(pattern, segments, i + 1)

getMatchParams(pattern, segments) == Obj(bindFrom(pattern, segments, 1))

\* the absent route: what `route?.data` is when nothing was found
NoRoute ==
    [name |-> "none", path |-> <<>>,
     handler |-> [page |-> "undefined", loading |-> "undefined", error |-> "undefined",
                  loader |-> FALSE, meta |-> FALSE, extra |-> FALSE, stray |-> FALSE],
     options |-> [given |-> FALSE, query |-> "none"], meta |-> "none"]

NoMatch == [found |-> FALSE, data |-> NoRoute, params |-> Undefined]

\* findRoute(router, "GET", path): the best entry and fresh params, or none
findRoute(registry, path) ==
    LET segments == splitPath(path)
        entries  == lookupTree(registry, <<>>, segments, 1)
    IN  IF entries = <<>> THEN NoMatch
        ELSE [found  |-> TRUE,
              data   |-> entries[1].data,
              params |-> getMatchParams(entries[1].pattern, segments)]

(* ------------------------------- schemas ------------------------------ *)

NoIssues == [t |-> "undefined", v |-> <<>>]

Issues(messages) == [t |-> "array", v |-> messages]

\* the outcome of a schema's validate: a Promise, or {value, issues}
Sync(value, issues) == [promise |-> FALSE, value |-> value, issues |-> issues]

Pending == [promise |-> TRUE, value |-> Undefined, issues |-> NoIssues]

\* createPassingSchema: the value as it is
passingValidate(value) == Sync(value, NoIssues)

\* createFailingSchema(message)
failingValidate(value) == Sync(Undefined, Issues(<<<<"Validation failed">>>>))

\* the field validators of the object schemas used here
fieldOk(key, value) ==
    /\ HasKey(value, key)
    /\ EntryOf(value, key).a = (key = "tags")

RECURSIVE checkFields(_, _, _)
checkFields(fields, value, i) ==
    IF i > Len(fields) THEN [issues |-> <<>>, result |-> <<>>]
    ELSE LET rest == checkFields(fields, value, i + 1)
         IN  IF fieldOk(fields[i], value)
             THEN [issues |-> rest.issues,
                   result |-> <<EntryOf(value, fields[i])>> \o rest.result]
             ELSE [issues |-> <<<<"Invalid value for field ", fields[i]>>>> \o rest.issues,
                   result |-> rest.result]

\* createObjectSchema(fields): only the declared fields survive
objectValidate(fields, value) ==
    IF value.t # "object" THEN Sync(Undefined, Issues(<<<<"Expected an object">>>>))
    ELSE LET c == checkFields(fields, value, 1)
         IN  IF Len(c.issues) > 0 THEN Sync(Undefined, Issues(c.issues))
             ELSE Sync(Obj(c.result), NoIssues)

\* createMockSchema(async ...): validate returns a Promise
asyncValidate(value) == Pending

\* schema["~standard"].validate(value)
validate(schema, value) ==
    CASE schema = "passing" -> passingValidate(value)
      [] schema = "failing" -> failingValidate(value)
      [] schema = "objectQ" -> objectValidate(<<"q">>, value)
      [] schema = "objectQTags" -> objectValidate(<<"q", "tags">>, value)
      [] schema = "async" -> asyncValidate(value)

(* ------------------------------ router.ts ----------------------------- *)

NoError == [t |-> "null", message |-> <<>>]

fromError_FirstMessage(issues, validating) ==
    [t |-> "object", message |-> issues[1]]

\* fromError(issues, validating): the issue messages are collected and dropped
fromError(issues, validating) ==
    [t |-> "object", message |-> <<"Invalid ", validating, " parameters">>]

\* the request object {query} that runValidation returns as data, or null
Data(query) == [t |-> "object", query |-> query]

NoData == [t |-> "null", query |-> Undefined]

AsyncError == <<"Async validation is not supported. Please use synchronous validators only.">>

runValidation_ThrowsOnIssues(options, context) ==
    IF options.query # "none"
    THEN LET result == validate(options.query, context.query)
         IN  IF result.promise \/ result.issues.t # "undefined"
             THEN [threw |-> TRUE, data |-> NoData, error |-> NoError,
                   trace |-> <<"validate">>]
             ELSE [threw |-> FALSE, data |-> Data(result.value), error |-> NoError,
                   trace |-> <<"validate">>]
    ELSE [threw |-> FALSE, data |-> Data(context.query), error |-> NoError,
          trace |-> <<>>]

runValidation_SchemaOnly(options, context) ==
    IF options.query # "none"
    THEN LET result == validate(options.query, context.query)
         IN  IF result.promise
             THEN [threw |-> TRUE, data |-> NoData, error |-> NoError,
                   trace |-> <<"validate">>]
             ELSE IF result.issues.t # "undefined"
             THEN [threw |-> FALSE, data |-> NoData,
                   error |-> fromError(result.issues.v, "query"),
                   trace |-> <<"validate">>]
             ELSE [threw |-> FALSE, data |-> Data(result.value), error |-> NoError,
                   trace |-> <<"validate">>]
    ELSE [threw |-> FALSE, data |-> NoData, error |-> NoError, trace |-> <<>>]

runValidation_KeepsRaw(options, context) ==
    IF options.query # "none"
    THEN LET result == validate(options.query, context.query)
         IN  IF result.promise
             THEN [threw |-> TRUE, data |-> NoData, error |-> NoError,
                   trace |-> <<"validate">>]
             ELSE IF result.issues.t # "undefined"
             THEN [threw |-> FALSE, data |-> NoData,
                   error |-> fromError(result.issues.v, "query"),
                   trace |-> <<"validate">>]
             ELSE [threw |-> FALSE, data |-> Data(context.query), error |-> NoError,
                   trace |-> <<"validate">>]
    ELSE [threw |-> FALSE, data |-> Data(context.query), error |-> NoError,
          trace |-> <<>>]

runValidation_NoPromiseCheck(options, context) ==
    IF options.query # "none"
    THEN LET result == validate(options.query, context.query)
         IN  IF result.issues.t # "undefined"
             THEN [threw |-> FALSE, data |-> NoData,
                   error |-> fromError(result.issues.v, "query"),
                   trace |-> <<"validate">>]
             ELSE [threw |-> FALSE, data |-> Data(result.value), error |-> NoError,
                   trace |-> <<"validate">>]
    ELSE [threw |-> FALSE, data |-> Data(context.query), error |-> NoError,
          trace |-> <<>>]

\* runValidation(options, context)
runValidation(options, context) ==
    IF options.query # "none"
    THEN LET result == validate(options.query, context.query)
         IN  IF result.promise
             THEN [threw |-> TRUE, data |-> NoData, error |-> NoError,
                   trace |-> <<"validate">>]
             ELSE IF result.issues.t # "undefined"
             THEN [threw |-> FALSE, data |-> NoData,
                   error |-> fromError(result.issues.v, "query"),
                   trace |-> <<"validate">>]
             ELSE [threw |-> FALSE, data |-> Data(result.value), error |-> NoError,
                   trace |-> <<"validate">>]
    ELSE [threw |-> FALSE, data |-> Data(context.query), error |-> NoError,
          trace |-> <<>>]

dataQuery_OrEmpty(data) == IF data.t = "object" THEN data.query ELSE EmptyObj

\* data?.query
dataQuery(data) == IF data.t = "object" THEN data.query ELSE Undefined

\* an input context: `has` is the set of keys present in the object
InputContext(has, path, params, query, context) ==
    [has |-> has, path |-> path, params |-> params, query |-> query, context |-> context]

NoContext == InputContext({}, <<>>, Undefined, Undefined, "none")

validation_Always(context, options) == runValidation(options, context)

\* `if (options) { ... runValidation(options, context) ... }`: data and error
\* stay null when the route has no options object
validation(context, options) ==
    IF options.given THEN runValidation(options, context)
    ELSE [threw |-> FALSE, data |-> NoData, error |-> NoError, trace |-> <<>>]

createInternalContext_FallsBackToRaw(context, options, path) ==
    LET v == validation(context, options)
    IN  [threw |-> v.threw,
         trace |-> v.trace,
         internalContext |->
            [has        |-> context.has \cup {"query", "queryError", "path", "context",
                                              "params", "method"},
             query      |-> Coalesce(dataQuery(v.data), context.query),
             queryError |-> v.error,
             path       |-> IF context.path # <<>> THEN context.path ELSE path,
             context    |-> IF "context" \in context.has /\ context.context # "none"
                            THEN context.context ELSE "internal",
             params     |-> IF "params" \in context.has THEN context.params ELSE Undefined,
             method     |-> "GET"]]

\* createInternalContext(context, {options, path})
createInternalContext(context, options, path) ==
    LET v == validation(context, options)
    IN  [threw |-> v.threw,
         trace |-> v.trace,
         internalContext |->
            [has        |-> context.has \cup {"query", "queryError", "path", "context",
                                              "params", "method"},
             query      |-> Coalesce(dataQuery(v.data), Undefined),
             queryError |-> v.error,
             path       |-> IF context.path # <<>> THEN context.path ELSE path,
             context    |-> IF "context" \in context.has /\ context.context # "none"
                            THEN context.context ELSE "internal",
             params     |-> IF "params" \in context.has THEN context.params ELSE Undefined,
             method     |-> "GET"]]

UndefinedFn == [t |-> "undefined", yields |-> Undefined]

Fn(yields) == [t |-> "function", yields |-> yields]

\* the params a handler puts into its own response
StrayParams == Obj(<<ParamEntry(<<"id">>, <<"handler">>)>>)

\* the user's handler: a deterministic function of the context it is given;
\* its loader computes `query || null`, its extra returns the params; a
\* straying handler also returns a params and a title field
handler(h, ctx) ==
    [PageComponent    |-> h.page,
     LoadingComponent |-> h.loading,
     ErrorComponent   |-> h.error,
     loader           |-> IF h.loader
                          THEN Fn(IF ctx.query.t = "undefined" THEN Null ELSE ctx.query)
                          ELSE UndefinedFn,
     meta             |-> IF h.meta THEN Fn(Obj(<<>>)) ELSE UndefinedFn,
     extra            |-> IF h.extra THEN Fn(ctx.params) ELSE UndefinedFn,
     params           |-> IF h.stray THEN StrayParams ELSE Undefined,
     title            |-> IF h.stray THEN "Title" ELSE "undefined"]

NoResponse ==
    [PageComponent |-> "undefined", LoadingComponent |-> "undefined",
     ErrorComponent |-> "undefined", loader |-> UndefinedFn, meta |-> UndefinedFn,
     extra |-> UndefinedFn, params |-> Undefined, title |-> "undefined"]

NoInternalContext ==
    [has |-> {}, query |-> Undefined, queryError |-> NoError, path |-> <<>>,
     context |-> "none", params |-> Undefined, method |-> "none"]

\* createRoute(path, handler, options, meta): the route handle
createRoute_DropsMeta(name, path, h, options, meta) ==
    [name |-> name, path |-> path, handler |-> h, options |-> options, meta |-> "none"]

createRoute(name, path, h, options, meta) ==
    [name |-> name, path |-> path, handler |-> h, options |-> options, meta |-> meta]

internalHandler_DefaultsParams(route, inputCtx) ==
    LET c == createInternalContext(inputCtx, route.options, route.path)
        d == [c.internalContext EXCEPT !.params = Coalesce(@, EmptyObj)]
    IN  IF c.threw
        THEN [threw |-> TRUE, response |-> NoResponse, trace |-> c.trace,
              hctx |-> NoInternalContext]
        ELSE [threw |-> FALSE, response |-> handler(route.handler, d),
              trace |-> Append(c.trace, "handler"), hctx |-> d]

internalHandler_HandlerFirst(route, inputCtx) ==
    LET c == createInternalContext(inputCtx, route.options, route.path)
    IN  IF c.threw
        THEN [threw |-> TRUE, response |-> NoResponse, trace |-> <<"handler">> \o c.trace,
              hctx |-> NoInternalContext]
        ELSE [threw |-> FALSE, response |-> handler(route.handler, c.internalContext),
              trace |-> <<"handler">> \o c.trace, hctx |-> c.internalContext]

internalHandler_AbortsOnError(route, inputCtx) ==
    LET c == createInternalContext(inputCtx, route.options, route.path)
    IN  IF c.threw \/ c.internalContext.queryError # NoError
        THEN [threw |-> TRUE, response |-> NoResponse, trace |-> c.trace,
              hctx |-> NoInternalContext]
        ELSE [threw |-> FALSE, response |-> handler(route.handler, c.internalContext),
              trace |-> Append(c.trace, "handler"), hctx |-> c.internalContext]

\* a route handle called with inputCtx (NoContext when called with nothing)
internalHandler(route, inputCtx) ==
    LET c == createInternalContext(inputCtx, route.options, route.path)
    IN  IF c.threw
        THEN [threw |-> TRUE, response |-> NoResponse, trace |-> c.trace,
              hctx |-> NoInternalContext]
        ELSE [threw |-> FALSE, response |-> handler(route.handler, c.internalContext),
              trace |-> Append(c.trace, "handler"), hctx |-> c.internalContext]

RECURSIVE addRoutes(_, _, _)
addRoutes(registry, rs, i) ==
    IF i > Len(rs) THEN registry
    ELSE addRoutes(insert(registry, rs[i].path, rs[i]), rs, i + 1)

RECURSIVE addRoutesAs(_, _, _, _)
addRoutesAs(registry, rs, i, data) ==
    IF i > Len(rs) THEN registry
    ELSE addRoutesAs(insert(registry, rs[i].path, data), rs, i + 1, data)

createRouter_LastEndpoint(rs) ==
    IF rs = <<>> THEN EmptyRegistry ELSE addRoutesAs(EmptyRegistry, rs, 1, rs[Len(rs)])

createRouter_Reversed(rs) ==
    addRoutes(EmptyRegistry, [i \in 1..Len(rs) |-> rs[Len(rs) + 1 - i]], 1)

\* createRouter(routes, config): every route's path is registered with the route
createRouter(rs) == addRoutes(EmptyRegistry, rs, 1)

\* the schema and handler invocations createRoute and createRouter make: none
createRouterTrace(rs) == <<>>

NoResult ==
    [PageComponent |-> "undefined", LoadingComponent |-> "undefined",
     ErrorComponent |-> "undefined", params |-> Undefined, loader |-> UndefinedFn,
     meta |-> UndefinedFn, extra |-> UndefinedFn]

\* what one call did: its arguments, the route it reached, the order of the
\* schema and handler invocations, the context the handler got, the outcome
Call(op, path, query, outcome, result, error, matched, trace, hctx) ==
    [op |-> op, path |-> path, query |-> query, outcome |-> outcome, result |-> result,
     error |-> error, matched |-> matched, trace |-> trace, hctx |-> hctx,
     given |-> IF op = "getRoute" THEN {"path", "method", "params", "query", "context"}
               ELSE {}]

queryParamsOf_AsGiven(queryArg) == queryArg

\* `queryParams = {}`: the default of an omitted argument
queryParamsOf(queryArg) == IF queryArg.t = "undefined" THEN EmptyObj ELSE queryArg

routeParams_Empty(route) == EmptyObj

routeFound_Always(route) == TRUE

\* `!route?.data` is false: the matcher found a route
routeFound(route) == route.found

\* decodeURIComponent of a captured text
decoded(text) == [i \in 1..Len(text) |-> IF text[i] = "a%20b" THEN "a b" ELSE text[i]]

routeParams_Decoded(route) ==
    LET params == Coalesce(route.params, EmptyObj)
    IN  Obj([i \in 1..Len(params.e) |->
                ParamEntry(params.e[i].k, decoded(params.e[i].v))])

\* `route.params ?? {}`
routeParams(route) == Coalesce(route.params, EmptyObj)

getRouteContext_DefaultObject(path, params, queryParams, config) ==
    InputContext({"path", "method", "params", "query", "context"},
                 path, params, queryParams,
                 IF config.t = "object" THEN "shared" ELSE "default")

getRouteContext_Copies(path, params, queryParams, config) ==
    InputContext({"path", "method", "params", "query", "context"},
                 path, params, queryParams, "call")

\* the context getRoute hands to the route handle
getRouteContext(path, params, queryParams, config) ==
    InputContext({"path", "method", "params", "query", "context"},
                 path, params, queryParams,
                 IF config.t = "object" THEN "shared" ELSE "call")

getRouteResult_Spreads(response, params) ==
    [response EXCEPT !.params = IF @.t = "undefined" THEN params ELSE @]

getRouteResult_WithoutExtra(response, params) ==
    [PageComponent    |-> response.PageComponent,
     LoadingComponent |-> response.LoadingComponent,
     ErrorComponent   |-> response.ErrorComponent,
     params           |-> params,
     loader           |-> response.loader,
     meta             |-> response.meta,
     extra            |-> UndefinedFn]

\* the object getRoute returns: six fields of the response, and params
getRouteResult(response, params) ==
    [PageComponent    |-> response.PageComponent,
     LoadingComponent |-> response.LoadingComponent,
     ErrorComponent   |-> response.ErrorComponent,
     params           |-> params,
     loader           |-> response.loader,
     meta             |-> response.meta,
     extra            |-> response.extra]

\* router.getRoute(path, queryParams = {})
getRoute(registry, config, path, queryArg) ==
    LET route == findRoute(registry, path)
    IN  IF ~routeFound(route)
        THEN Call("getRoute", path, queryArg, "null", NoResult, <<>>, NoRoute, <<>>,
                  NoInternalContext)
        ELSE
          LET params  == routeParams(route)
              context == getRouteContext(path, params, queryParamsOf(queryArg), config)
              r       == internalHandler(route.data, context)
          IN  IF r.threw
              THEN Call("getRoute", path, queryArg, "throw", NoResult, AsyncError,
                        route.data, r.trace, r.hctx)
              ELSE Call("getRoute", path, queryArg, "route",
                        getRouteResult(r.response, params),
                        <<>>, route.data, r.trace, r.hctx)

registryAfterGetRoute_Caches(registry, path) ==
    LET route == findRoute(registry, path)
    IN  IF route.found THEN insert(registry, path, route.data) ELSE registry

registryAfterGetRoute_Evicts(registry, path) ==
    LET node == nodeOf(compilePattern(path))
    IN  [n \in (DOMAIN registry) \ {node} |-> registry[n]]

\* getRoute reads the registry and never writes to it
registryAfterGetRoute(registry, path) == registry

registryAfterThrow_Cleared(registry) == EmptyRegistry

\* the Error thrown by runValidation leaves getRoute at once: nothing catches
\* it and nothing is written on the way out
registryAfterThrow(registry) == registry

\* getRoute and createInternalContext pass config.routerContext on and assign
\* to none of its properties
routerContextAfterGetRoute(config) == config

(* ------------------------- routes and requests ------------------------ *)

NoOptions == [given |-> FALSE, query |-> "none"]

Options(schema) == [given |-> TRUE, query |-> schema]

Page(component) ==
    [page |-> component, loading |-> "undefined", error |-> "undefined",
     loader |-> TRUE, meta |-> FALSE, extra |-> TRUE, stray |-> FALSE]

FullPage(component) ==
    [page |-> component, loading |-> "Loading", error |-> "Failure",
     loader |-> TRUE, meta |-> TRUE, extra |-> TRUE, stray |-> TRUE]

\* the routes a router is built from
RoutePool ==
    { createRoute("home", <<"/">>, Page("Home"), NoOptions, "none"),
      createRoute("me", <<"/", "users", "/", "me">>, Page("Me"), Options("failing"),
                  "static"),
      createRoute("user", <<"/", "users", "/", ":", "id">>, FullPage("User"),
                  Options("none"), "none"),
      createRoute("userTab", <<"/", "users", "/", ":", "id", "/", ":", "tab">>,
                  Page("UserTab"), Options("passing"), "none"),
      createRoute("files", <<"/", "files", "/", "*", "*", ":", "rest">>, Page("Files"),
                  Options("objectQTags"), "none"),
      createRoute("search", <<"/", "search">>, Page("Search"), Options("objectQ"), "none"),
      createRoute("auth", <<"/", "users", "/", "*", ":", "who">>, Page("Auth"),
                  Options("async"), "none") }

\* Object.values(routes): up to MaxRoutes distinct routes, in any order
RouteLists ==
    UNION { {rs \in [1..n -> RoutePool] : \A i, j \in 1..n : i # j => rs[i] # rs[j]}
            : n \in 0..MaxRoutes }

\* the paths asked of getRoute
Paths ==
    { <<"/">>,
      <<"/", "users", "/", "me">>,
      <<"/", "users", "/", "a%20b">>,
      <<"/", "users", "/", "me", "/", "posts">>,
      <<"/", "files", "/", "a", "/", "b">>,
      <<"/", "search">>,
      <<"/", "users">> }

\* the query arguments of getRoute; Undefined is the omitted argument
Queries ==
    { Undefined,
      EmptyObj,
      Obj(<<StrEntry("q", "x"), StrEntry("bad", "1")>>),
      Obj(<<StrEntry("q", "x"), ArrEntry("tags", <<"t1", "t2">>)>>) }

\* the contexts a route handle is invoked with directly
DirectContexts ==
    { NoContext,
      InputContext({"params"}, <<>>, Obj(<<ParamEntry(<<"id">>, <<"123">>)>>),
                   Undefined, "none"),
      InputContext({"query"}, <<>>, Undefined,
                   Obj(<<StrEntry("q", "x"), StrEntry("bad", "1")>>), "none") }

NoCall ==
    Call("none", <<>>, Undefined, "none", NoResult, <<>>, NoRoute, <<>>,
         NoInternalContext)

\* the observer's note: one earlier getRoute call, and whether a getRoute call
\* with other arguments has been made since
NoMemo == [call |-> NoCall, between |-> FALSE]

\* the getRoute activations whose steps are interleaved
Callers == {"a", "b"}

NoMade == [threw |-> FALSE, trace |-> <<>>, internalContext |-> NoInternalContext]

\* an activation of getRoute: its position, its arguments, its locals (route,
\* params, context, the internal context made, the handler's response), what
\* it returned, and whether another activation was under way during it
Idle ==
    [pc |-> "idle", path |-> <<>>, query |-> Undefined, route |-> NoMatch,
     params |-> Undefined, context |-> NoContext, made |-> NoMade,
     response |-> NoResponse, out |-> NoCall, overlapped |-> FALSE, seen |-> Undefined]

NoCalls == [c \in Callers |-> Idle]

\* what a handler that writes to its context object leaves in it
Marked == Obj(<<StrEntry("visited", "yes")>>)

\* the context objects and their contents: the configured one, one made by
\* each activation, and one that would outlive the activations
NoMarks == [o \in {"shared", "default"} \cup Callers |-> EmptyObj]

\* the object a context label stands for in activation c: `{}` evaluated in
\* getRoute or in createInternalContext is an object of that activation
objectOf(c, label) == IF label \in {"call", "internal"} THEN c ELSE label

paramsOf_Shared(cs, c) ==
    LET later == {d \in DOMAIN cs : d # c /\ cs[d].pc \notin {"idle", "matched"}
                                          /\ cs[d].route.found}
    IN  IF later = {} THEN cs[c].params ELSE cs[CHOOSE d \in later : TRUE].params

\* `const params = route.params ?? {}`: a local of the activation
paramsOf(cs, c) == cs[c].params

(* ---------------------------- state machine --------------------------- *)

Init ==
    /\ phase = "Unbuilt"
    /\ routes \in RouteLists
    /\ routerContext \in {Undefined, EmptyObj}
    /\ internalRouter = EmptyRegistry
    /\ last = NoCall
    /\ memo = NoMemo
    /\ calls = NoCalls
    /\ heap = NoMarks

\* createRouter(routes, config): Unbuilt -> Ready, once
CreateRouter ==
    /\ phase = "Unbuilt"
    /\ phase' = "Ready"
    /\ internalRouter' = createRouter(routes)
    /\ last' = [NoCall EXCEPT !.op = "createRouter", !.trace = createRouterTrace(routes),
                              !.outcome = "router"]
    /\ UNCHANGED <<routes, routerContext, memo, calls, heap>>

\* router.getRoute(path, query) for a path of `paths` and a query of `queries`
GetRouteOn(paths, queries) ==
    /\ phase = "Ready"
    /\ \E path \in paths, query \in queries :
          /\ last' = getRoute(internalRouter, routerContext, path, query)
          /\ internalRouter' =
                IF getRoute(internalRouter, routerContext, path, query).outcome = "throw"
                THEN registryAfterThrow(registryAfterGetRoute(internalRouter, path))
                ELSE registryAfterGetRoute(internalRouter, path)
          /\ memo' = IF memo.call.op = "getRoute"
                         /\ (path # memo.call.path \/ query # memo.call.query)
                      THEN [memo EXCEPT !.between = TRUE] ELSE memo
    /\ routerContext' = routerContextAfterGetRoute(routerContext)
    /\ UNCHANGED <<phase, routes, calls, heap>>

\* router.getRoute(path, query)
GetRoute == GetRouteOn(Paths, Queries)

\* a route handle called directly, without a router
Invoke ==
    /\ \E i \in 1..Len(routes), ctx \in DirectContexts :
          LET r == internalHandler(routes[i], ctx)
          IN  last' = [Call("invoke", ctx.path, ctx.query,
                           IF r.threw THEN "throw" ELSE "route",
                           IF r.threw THEN NoResult ELSE r.response,
                           IF r.threw THEN AsyncError ELSE <<>>,
                           routes[i], r.trace, r.hctx)
                        EXCEPT !.given = ctx.has]
    /\ UNCHANGED <<phase, routes, routerContext, internalRouter, memo, calls, heap>>

\* an observer keeps one earlier getRoute call to compare later calls with
Remember ==
    /\ last.op = "getRoute"
    /\ memo.call # last
    /\ memo' = [call |-> last, between |-> FALSE]
    /\ UNCHANGED <<phase, routes, routerContext, internalRouter, last, calls, heap>>

Next == CreateRouter \/ GetRoute \/ Invoke

Spec == Init /\ [][Next]_vars

\* the same router watched by the observer, built from the routes that give
\* getRoute each of its outcomes (route, failed validation, thrown error, null)
ObservedPool == {r \in RoutePool : r.name \in {"user", "search", "auth"}}

InitObserved ==
    /\ Init
    /\ routerContext = Undefined
    /\ \A i \in 1..Len(routes) : routes[i] \in ObservedPool

NextObserved == CreateRouter \/ GetRoute \/ Invoke \/ Remember

SpecObserved == InitObserved /\ [][NextObserved]_vars

\* routers built from patterns that compete for the paths below /users: a
\* literal, one and two parameters, and a catch-all
PatternPool ==
    { r \in RoutePool : r.name \in {"home", "me", "user", "userTab"} } \cup
    { createRoute("rest", <<"/", "users", "/", "*", "*", ":", "rest">>, Page("Rest"),
                  NoOptions, "none") }

PatternLists ==
    UNION { {rs \in [1..n -> PatternPool] : \A i, j \in 1..n : i # j => rs[i] # rs[j]}
            : n \in 0..MaxRoutes }

\* the paths asked of these routers: the empty string, the root, /users,
\* paths of one to three components below /users, and one with a trailing slash
PatternPaths ==
    { <<>>,
      <<"/">>,
      <<"/", "users">>,
      <<"/", "users", "/", "me", "/">>,
      <<"/", "users", "/", "me">>,
      <<"/", "users", "/", "a%20b">>,
      <<"/", "users", "/", "me", "/", "posts">>,
      <<"/", "users", "/", "a", "/", "b", "/", "c">> }

InitPatterns ==
    /\ phase = "Unbuilt"
    /\ routes \in PatternLists
    /\ routerContext = Undefined
    /\ internalRouter = EmptyRegistry
    /\ last = NoCall
    /\ memo = NoMemo
    /\ calls = NoCalls
    /\ heap = NoMarks

GetRoutePatterns == GetRouteOn(PatternPaths, {Undefined, EmptyObj})

NextPatterns == CreateRouter \/ GetRoutePatterns \/ Invoke

SpecPatterns == InitPatterns /\ [][NextPatterns]_vars

\* the steps of getRoute activations, interleaved: each step reads and writes
\* the locals of its own activation, and every handler writes to the context
\* object it is given
InterleavedPaths == { <<"/">>, <<"/", "search">>, <<"/", "users", "/", "a%20b">> }

InterleavedQueries == { Undefined, Obj(<<StrEntry("q", "x"), StrEntry("bad", "1")>>) }

InitInterleaved == InitObserved

\* a router with a shared context and an observer of its calls
InitRecovery ==
    /\ Init
    /\ routerContext = EmptyObj
    /\ \A i \in 1..Len(routes) : routes[i] \in ObservedPool

GetRouteRecovery == GetRouteOn(InterleavedPaths, InterleavedQueries)

NextRecovery == CreateRouter \/ GetRouteRecovery \/ Remember

SpecRecovery == InitRecovery /\ [][NextRecovery]_vars

Others(c) == {d \in Callers : d # c /\ calls[d].pc \notin {"idle", "done"}}

\* activation c after a step that left it as `next`
Stepped(c, next) ==
    [calls EXCEPT ![c] = [next EXCEPT !.overlapped = calls[c].overlapped \/ Others(c) # {}]]

Frame == UNCHANGED <<phase, routes, routerContext, internalRouter, last, memo>>

Local == Frame /\ UNCHANGED heap

\* `const route = findRoute(...)` and the early `return null`
Match(c) ==
    /\ phase = "Ready" /\ calls[c].pc = "idle"
    /\ \E path \in InterleavedPaths, query \in InterleavedQueries :
          LET route == findRoute(internalRouter, path)
              begun == [calls[c] EXCEPT !.path = path, !.query = query, !.route = route]
          IN  calls' = Stepped(c,
                 IF ~routeFound(route)
                 THEN [begun EXCEPT !.pc = "done",
                                    !.out = Call("getRoute", path, query, "null", NoResult,
                                                 <<>>, NoRoute, <<>>, NoInternalContext)]
                 ELSE [begun EXCEPT !.pc = "matched"])
    /\ Local

\* `const params = route.params ?? {}`
Bind(c) ==
    /\ calls[c].pc = "matched"
    /\ calls' = Stepped(c, [calls[c] EXCEPT !.pc = "bound",
                                            !.params = routeParams(calls[c].route)])
    /\ Local

\* `const context = { path, params, query, context, method }`
Assemble(c) ==
    /\ calls[c].pc = "bound"
    /\ calls' = Stepped(c, [calls[c] EXCEPT
                   !.pc = "assembled",
                   !.context = getRouteContext(calls[c].path, paramsOf(calls, c),
                                               queryParamsOf(calls[c].query),
                                               routerContext)])
    /\ heap' = [heap EXCEPT ![c] = EmptyObj]
    /\ Frame

\* the route handle's createInternalContext, which runs the query schema
Validate(c) ==
    /\ calls[c].pc = "assembled"
    /\ LET made == createInternalContext(calls[c].context, calls[c].route.data.options,
                                         calls[c].route.data.path)
       IN  calls' = Stepped(c,
              IF made.threw
              THEN [calls[c] EXCEPT !.pc = "done", !.made = made,
                                    !.out = Call("getRoute", calls[c].path, calls[c].query,
                                                 "throw", NoResult, AsyncError,
                                                 calls[c].route.data, made.trace,
                                                 NoInternalContext)]
              ELSE [calls[c] EXCEPT !.pc = "validated", !.made = made])
    /\ Local

\* `handler(internalContext)`: the handler reads its context object and
\* writes to it
Handle(c) ==
    /\ calls[c].pc = "validated"
    /\ LET object == objectOf(c, calls[c].made.internalContext.context)
       IN  /\ calls' = Stepped(c, [calls[c] EXCEPT
                          !.pc = "handled",
                          !.seen = heap[object],
                          !.response = handler(calls[c].route.data.handler,
                                               calls[c].made.internalContext)])
           /\ heap' = [heap EXCEPT ![object] = Marked]
    /\ Frame

\* the destructuring of the response and the object returned
Build(c) ==
    /\ calls[c].pc = "handled"
    /\ calls' = Stepped(c, [calls[c] EXCEPT
                   !.pc = "done",
                   !.out = Call("getRoute", calls[c].path, calls[c].query, "route",
                                getRouteResult(calls[c].response, paramsOf(calls, c)),
                                <<>>, calls[c].route.data,
                                Append(calls[c].made.trace, "handler"),
                                calls[c].made.internalContext)])
    /\ Local

NextInterleaved ==
    \/ CreateRouter
    \/ \E c \in Callers : Match(c)
    \/ \E c \in Callers : Bind(c)
    \/ \E c \in Callers : Assemble(c)
    \/ \E c \in Callers : Validate(c)
    \/ \E c \in Callers : Handle(c)
    \/ \E c \in Callers : Build(c)

SpecInterleaved == InitInterleaved /\ [][NextInterleaved]_vars

\* getRoute runs to its end once called: no step of an activation waits
Continue(c) == Bind(c) \/ Assemble(c) \/ Validate(c) \/ Handle(c) \/ Build(c)

SpecInterleavedFair == SpecInterleaved /\ \A c \in Callers : WF_vars(Continue(c))

(* ------------------------------ properties ---------------------------- *)

\* a pattern without parameter, wildcard or catch-all segments
IsLiteral(path) ==
    \A i \in 1..Len(compilePattern(path)) : compilePattern(path)[i].kind = "Literal"

\* the pattern accepts the components, segment by segment
Accepts(pattern, segments) ==
    /\ Len(pattern) > 0 \/ Len(segments) = 0
    /\ IF Len(pattern) > 0 /\ pattern[Len(pattern)].kind = "CatchAll"
       THEN Len(segments) >= Len(pattern)
       ELSE Len(segments) = Len(pattern)
    /\ \A i \in 1..Len(pattern) :
          pattern[i].kind = "Literal" => pattern[i].text = segments[i]

Registered(route) == \E i \in 1..Len(routes) : routes[i] = route

SomeRouteAccepts(path) ==
    \E i \in 1..Len(routes) : Accepts(compilePattern(routes[i].path), splitPath(path))

\* the last operation was a getRoute call on a built router
Resolved == phase = "Ready" /\ last.op = "getRoute"

Count(trace, event) == Cardinality({i \in 1..Len(trace) : trace[i] = event})

\* what the matched route's schema answers to the query getRoute passed on
Verdict == validate(last.matched.options.query, queryParamsOf(last.query))

HasSchema == last.matched.options.given /\ last.matched.options.query # "none"

UsersMe == <<"/", "users", "/", "me">>

UsersEncoded == <<"/", "users", "/", "a%20b">>

\* C1: when a route is registered at exactly the literal path asked for,
\* getRoute selects that route whatever parameterized routes also accept the
\* path and whatever the registration order, and what it returns is that
\* route's handler's result; a path only the parameterized route accepts
\* resolves to the parameterized route with the component bound.
C1_ExactLiteralWins ==
    Resolved =>
      /\ (IsLiteral(last.path) /\ \E i \in 1..Len(routes) : routes[i].path = last.path)
            => /\ last.outcome # "null"
               /\ Registered(last.matched)
               /\ last.matched.path = last.path
               /\ last.outcome = "route" =>
                     last.result = getRouteResult(handler(last.matched.handler, last.hctx),
                                                  last.result.params)
      /\ (last.path = UsersEncoded /\ \E i \in 1..Len(routes) : routes[i].name = "user")
            => /\ last.matched.path \in {<<"/", "users", "/", ":", "id">>,
                                         <<"/", "users", "/", "*", ":", "who">>}
               /\ last.matched.name = "user" =>
                     last.result.params = Obj(<<ParamEntry(<<"id">>, <<"a%20b">>)>>)

\* C1 witness: /users/:id was registered before /users/me and /users/me resolved
C1_Witness ==
    /\ Resolved /\ Len(routes) = 2
    /\ routes[1].name = "user" /\ routes[2].name = "me"
    /\ last.path = UsersMe /\ last.outcome = "route"
    /\ last.result.PageComponent = "Me"

\* C2: the params getRoute returns bind every parameter name of the winning
\* pattern to the path component at its position, verbatim, and bind nothing
\* else; the handler is given the same map.
C2_ParamsVerbatim ==
    (Resolved /\ last.outcome = "route") =>
      LET pattern == compilePattern(last.matched.path)
          segs    == splitPath(last.path)
          params  == last.result.params
      IN  /\ params.t = "object"
          /\ \A i \in 1..Len(pattern) :
                pattern[i].kind \in {"Param", "Wildcard"} =>
                   /\ HasKey(params, pattern[i].text)
                   /\ EntryOf(params, pattern[i].text).v = segs[i]
          /\ \A j \in 1..Len(params.e) :
                /\ \E i \in 1..Len(pattern) :
                      pattern[i].kind # "Literal" /\ pattern[i].text = params.e[j].k
                /\ \A k \in 1..Len(params.e) : params.e[k].k = params.e[j].k => k = j
          /\ last.hctx.params = params

\* C2 witness: a two-parameter pattern bound both names, one to an encoded text
C2_Witness ==
    /\ Resolved /\ last.outcome = "route"
    /\ last.matched.name = "userTab"
    /\ last.result.params = Obj(<<ParamEntry(<<"id">>, <<"me">>),
                                  ParamEntry(<<"tab">>, <<"posts">>)>>)
    /\ last.hctx.params = last.result.params

\* C3: a path no registered pattern accepts gives null, with no handler and
\* no schema invoked and nothing thrown.
C3_UnmatchedIsNull ==
    (Resolved /\ ~SomeRouteAccepts(last.path)) =>
      /\ last.outcome = "null"
      /\ last.trace = <<>>
      /\ last.result = NoResult
      /\ last.hctx = NoInternalContext

\* C3 witness: a router with routes was asked a path none of them accepts
C3_Witness ==
    /\ Resolved /\ Len(routes) = 2
    /\ ~SomeRouteAccepts(last.path)
    /\ last.outcome = "null"

InvalidQuery == [t |-> "object", message |-> <<"Invalid ", "query", " parameters">>]

\* C4: when the matched route's schema answers synchronously without issues,
\* the handler's query is the schema's value, not the raw mapping, and
\* queryError is null.
C4_ValidatedQueryIsSchemaValue ==
    (Resolved /\ last.outcome # "null" /\ HasSchema
       /\ ~Verdict.promise /\ Verdict.issues.t = "undefined") =>
      /\ last.outcome = "route"
      /\ last.hctx.query = Verdict.value
      /\ last.hctx.queryError = NoError

\* C4 witness: the schema dropped a key of the raw mapping and the handler saw
\* the schema's output
C4_Witness ==
    /\ Resolved /\ last.outcome = "route"
    /\ last.matched.options.query = "objectQ"
    /\ last.query = Obj(<<StrEntry("q", "x"), StrEntry("bad", "1")>>)
    /\ last.hctx.query = Obj(<<StrEntry("q", "x")>>)

\* C5: when the schema reports issues, the handler gets query = undefined and
\* queryError = {message: "Invalid query parameters"} exactly, whatever the
\* number and texts of the issues.
C5_IssuesGiveOneNormalizedError ==
    (Resolved /\ last.outcome # "null" /\ HasSchema
       /\ ~Verdict.promise /\ Verdict.issues.t # "undefined") =>
      /\ last.hctx.query = Undefined
      /\ last.hctx.queryError = InvalidQuery
      /\ last.result.loader.yields = Null

\* C5 witness: two issues were reported and one normalized error came out
C5_Witness ==
    /\ Resolved /\ HasSchema /\ last.outcome = "route"
    /\ ~Verdict.promise /\ Verdict.issues.t = "array" /\ Len(Verdict.issues.v) = 2
    /\ last.hctx.queryError = InvalidQuery

\* C6: failed validation never aborts getRoute: the handler runs exactly once
\* and a route result with the extracted params is returned.
C6_ValidationFailureStillResolves ==
    (Resolved /\ last.outcome # "null" /\ HasSchema
       /\ ~Verdict.promise /\ Verdict.issues.t # "undefined") =>
      /\ last.outcome = "route"
      /\ Count(last.trace, "handler") = 1
      /\ last.result # NoResult
      /\ last.result.PageComponent = last.matched.handler.page
      /\ last.result.params =
            getMatchParams(compilePattern(last.matched.path), splitPath(last.path))

\* C6 witness: a catch-all route whose schema rejected the query still returned
\* its page and the captured rest of the path
C6_Witness ==
    /\ Resolved /\ last.matched.name = "files" /\ last.query = EmptyObj
    /\ last.outcome = "route" /\ last.result.PageComponent = "Files"
    /\ last.hctx.queryError # NoError
    /\ last.result.params = Obj(<<ParamEntry(<<"rest">>, <<"a", "/", "b">>)>>)

\* C7: when the schema's validate returns a Promise, getRoute throws the
\* async-validation error: no route is returned, the handler is not invoked
\* and no queryError is made of it.
C7_AsyncSchemaThrows ==
    (Resolved /\ last.outcome # "null" /\ HasSchema /\ Verdict.promise) =>
      /\ last.outcome = "throw"
      /\ last.error = AsyncError
      /\ last.result = NoResult
      /\ Count(last.trace, "handler") = 0
      /\ last.hctx = NoInternalContext

\* C7 witness: the route with the asynchronous schema was matched and threw
C7_Witness ==
    /\ Resolved /\ last.matched.name = "auth"
    /\ last.outcome = "throw" /\ last.trace = <<"validate">>

\* C8 as stated: without a query schema the caller's raw query, possibly
\* undefined, reaches the handler unchanged.
C8_RawQueryPassesThrough ==
    (Resolved /\ last.outcome = "route" /\ ~HasSchema) => last.hctx.query = last.query

\* C8 amended: with an options object that has no schema the query getRoute
\* passes on (the caller's mapping, {} when the caller gave none) reaches the
\* handler unchanged; with no options object the handler's query is undefined.
C8_RawQueryPassesThroughWithOptions ==
    (Resolved /\ last.outcome = "route" /\ ~HasSchema) =>
      /\ last.matched.options.given => last.hctx.query = queryParamsOf(last.query)
      /\ ~last.matched.options.given => last.hctx.query = Undefined

\* C8 witness: a route with schema-less options saw the caller's mapping
C8_Witness ==
    /\ Resolved /\ last.outcome = "route"
    /\ last.matched.options = Options("none")
    /\ last.query = Obj(<<StrEntry("q", "x"), StrEntry("bad", "1")>>)
    /\ last.hctx.query = last.query

\* C9: a route created without options, resolved with an empty query mapping
\* or invoked directly with no context, gives its handler query = undefined,
\* so a loader computing `query || null` yields null.
C9_NoOptionsEmptyQueryIsUndefined ==
    (/\ last.op \in {"getRoute", "invoke"}
     /\ last.outcome = "route"
     /\ ~last.matched.options.given
     /\ \/ last.op = "getRoute" /\ last.query = EmptyObj
        \/ last.op = "invoke" /\ last.given = {}) =>
      /\ last.hctx.query = Undefined
      /\ last.result.loader = Fn(Null)

\* C9 witness: the option-less home route resolved with {}
C9_Witness ==
    /\ Resolved /\ last.matched.name = "home" /\ last.query = EmptyObj
    /\ last.outcome = "route" /\ last.result.loader = Fn(Null)

SameInput(a, b) == a.op = b.op /\ a.path = b.path /\ a.query = b.query

SameOutcome(a, b) ==
    /\ a.outcome = b.outcome
    /\ a.result = b.result
    /\ a.error = b.error
    /\ a.matched = b.matched

\* C10: two getRoute calls with the same path and query on one router give
\* structurally identical outcomes, whatever calls happened in between.
C10_Idempotent ==
    (Resolved /\ memo.call.op = "getRoute" /\ SameInput(last, memo.call))
       => SameOutcome(last, memo.call)

\* C10 witness: a call was repeated after a call with other arguments and
\* gave the same route again
C10_Witness ==
    /\ Resolved /\ memo.call.op = "getRoute" /\ SameInput(last, memo.call)
    /\ memo.between
    /\ last.outcome = "route" /\ memo.call.outcome = "route"

\* C11: on a match every one of PageComponent, LoadingComponent,
\* ErrorComponent, loader, meta and extra of the result is what the handler
\* returned for it, undefined when the handler did not define it, and params
\* is the map the matcher extracted.
C11_ResultIsHandlersResponse ==
    (Resolved /\ last.outcome = "route") =>
      LET h        == last.matched.handler
          response == handler(h, last.hctx)
      IN  /\ last.result.PageComponent = response.PageComponent
          /\ last.result.LoadingComponent = response.LoadingComponent
          /\ last.result.ErrorComponent = response.ErrorComponent
          /\ last.result.loader = response.loader
          /\ last.result.meta = response.meta
          /\ last.result.extra = response.extra
          /\ h.loading = "undefined" => last.result.LoadingComponent = "undefined"
          /\ ~h.meta => last.result.meta = UndefinedFn
          /\ h.extra => last.result.extra = Fn(last.hctx.params)
          /\ last.result.params =
                getMatchParams(compilePattern(last.matched.path), splitPath(last.path))

\* C11 witness: a handler defining every field was resolved and all came back
C11_Witness ==
    /\ Resolved /\ last.outcome = "route" /\ last.matched.name = "user"
    /\ last.result.LoadingComponent = "Loading"
    /\ last.result.ErrorComponent = "Failure"
    /\ last.result.meta.t = "function"
    /\ last.result.extra = Fn(Obj(<<ParamEntry(<<"id">>, <<"me">>)>>))

\* two different patterns that differ only in the names they bind
EquallySpecific(i, j) ==
    /\ routes[i].path # routes[j].path
    /\ nodeOf(compilePattern(routes[i].path)) = nodeOf(compilePattern(routes[j].path))

\* C13: of several equally specific patterns that match a path, the one
\* registered first is the one getRoute resolves to.
C13_FirstOfEquallySpecificWins ==
    (Resolved /\ last.outcome # "null") =>
       \A i, j \in 1..Len(routes) :
          (/\ i < j /\ EquallySpecific(i, j)
           /\ Accepts(compilePattern(routes[i].path), splitPath(last.path))
           /\ \A k \in 1..Len(routes) : EquallySpecific(k, j) => i <= k) =>
             /\ last.matched # routes[j]
             /\ last.matched.path \in {routes[i].path, routes[j].path}
                   => last.matched = routes[i]

\* C13 witness: /users/:id and /users/*:who both accept the path and the one
\* registered first, second in the pool's writing, was taken
C13_Witness ==
    /\ Resolved /\ Len(routes) = 2
    /\ routes[1].name = "auth" /\ routes[2].name = "user"
    /\ last.path = UsersEncoded
    /\ last.matched = routes[1] /\ last.outcome = "throw"

EndsWithCatchAll(path) ==
    LET pattern == compilePattern(path)
    IN  Len(pattern) > 0 /\ pattern[Len(pattern)].kind = "CatchAll"

C16_InterleavedCallsAreIndependent ==
    \A c \in Callers :
       calls[c].pc = "done" =>
          calls[c].out = getRoute(internalRouter, routerContext, calls[c].path,
                                  calls[c].query)

\* C16 witness: two calls for different routes overlapped and both returned a
\* route
C16_Witness ==
    /\ \A c \in Callers : calls[c].pc = "done" /\ calls[c].overlapped
                          /\ calls[c].out.outcome = "route"
    /\ calls["a"].out.matched.name = "user" /\ calls["b"].out.matched.name = "search"

\* the (pattern, handler) pairs of a registry
RegisteredPairs(registry) ==
    UNION { { <<registry[n][i].path, registry[n][i].data.handler>> :
              i \in 1..Len(registry[n]) } : n \in DOMAIN registry }

\* C17: the registry is empty before createRouter and holds exactly the
\* supplied routes' (pattern, handler) pairs in every state after it, whatever
\* getRoute calls were made.
C17_RegistryPopulatedOnce ==
    /\ phase = "Unbuilt" => internalRouter = EmptyRegistry
    /\ phase = "Ready" =>
          /\ RegisteredPairs(internalRouter) =
                { <<routes[i].path, routes[i].handler>> : i \in 1..Len(routes) }
          /\ internalRouter = createRouter(routes)

\* C17 witness: a call that threw left a registry of two routes as it was
C17_Witness ==
    /\ Resolved /\ last.outcome = "throw" /\ Len(routes) = 2
    /\ Cardinality(RegisteredPairs(internalRouter)) = 2

\* C18: a handler run by getRoute on a router with a shared context gets that
\* object itself, and no getRoute call changes the object's contents.
C18_SharedContextByReference ==
    /\ [](( /\ Resolved /\ routerContext.t = "object"
            /\ Count(last.trace, "handler") > 0 )
          => last.hctx.context = "shared")
    /\ [][routerContext' = routerContext]_vars

\* C18 witness: a handler was run with the router's shared context
C18_Witness ==
    /\ Resolved /\ routerContext = EmptyObj
    /\ last.outcome = "route" /\ last.hctx.context = "shared"

\* C20: a route handle carries the path, options and meta it was created
\* with (nothing where none was given); building the routes and the router
\* runs no handler and no schema, which run only in getRoute on a match or
\* when the handle is called.
C20_CreateRouteAttachesAndRunsNothing ==
    /\ \A i \in 1..Len(routes) :
          /\ routes[i].name = "me" =>
                /\ routes[i].path = UsersMe
                /\ routes[i].options = Options("failing")
                /\ routes[i].meta = "static"
          /\ routes[i].name = "home" =>
                /\ routes[i].path = <<"/">>
                /\ routes[i].options = NoOptions
                /\ routes[i].meta = "none"
    /\ last.op \in {"none", "createRouter"} => last.trace = <<>>
    /\ last.trace # <<>> =>
          \/ last.op = "invoke"
          \/ last.op = "getRoute" /\ last.outcome # "null"

\* C20 witness: a router was built from a tagged route with a failing schema
\* and nothing had run
C20_Witness ==
    /\ phase = "Ready" /\ last.op = "createRouter" /\ last.trace = <<>>
    /\ Len(routes) > 0 /\ routes[1].name = "me" /\ routes[1].meta = "static"

\* the last operation was a direct call of a route handle
Invoked == last.op = "invoke"

\* what the invoked route's schema answers to the query of the input context
DirectVerdict == validate(last.matched.options.query, last.query)

\* what C21 says of a direct call that the precondition `scope` covers
DirectInvocation(scope) ==
    (Invoked /\ scope) =>
      /\ Count(last.trace, "handler") = 1
      /\ last.outcome = "route"
      /\ last.result = handler(last.matched.handler, last.hctx)
      /\ last.given = {} => last.hctx.params = Undefined /\ last.hctx.query = Undefined
      /\ "params" \in last.given =>
            last.hctx.params = Obj(<<ParamEntry(<<"id">>, <<"123">>)>>)
      /\ ("query" \in last.given /\ HasSchema /\ DirectVerdict.issues.t = "undefined") =>
            last.hctx.query = DirectVerdict.value

HandlerRan == last.op \in {"getRoute", "invoke"} /\ Count(last.trace, "handler") > 0

\* what the route's schema answers to the query the route handle was given
InputVerdict ==
    IF last.op = "getRoute" THEN Verdict ELSE DirectVerdict

\* C22: in a context handed to a handler the query and queryError are never
\* both populated: queryError is set exactly when the route's schema reported
\* issues, and then query is undefined.
C22_QueryAndErrorExclusive ==
    HandlerRan =>
      /\ ~(last.hctx.query # Undefined /\ last.hctx.queryError # NoError)
      /\ last.hctx.queryError # NoError
            <=> (HasSchema /\ InputVerdict.issues.t # "undefined")
      /\ last.hctx.queryError # NoError => last.hctx.query = Undefined
      /\ last.hctx.queryError \in {NoError, InvalidQuery}

\* C22 witness: a schema rejected a non-empty query and the handler got the
\* error without any query
C22_Witness ==
    /\ Resolved /\ HandlerRan /\ last.matched.name = "me"
    /\ last.query = Obj(<<StrEntry("q", "x"), StrEntry("bad", "1")>>)
    /\ last.hctx.queryError = InvalidQuery /\ last.hctx.query = Undefined

\* C23: the path in the context handed to the handler of a matched getRoute
\* call is the string passed to getRoute, also when it is empty or ends with
\* a slash.
C23_ContextPathIsOriginal ==
    (Resolved /\ HandlerRan) => last.hctx.path = last.path

\* the order of the invocations C25 states for routes with a schema within
\* `scope`, for routes without one, and for unmatched paths
InvocationOrder(scope) ==
    Resolved =>
      /\ (last.outcome # "null" /\ HasSchema /\ scope) =>
            last.trace = <<"validate", "handler">>
      /\ (last.outcome # "null" /\ ~HasSchema) => last.trace = <<"handler">>
      /\ last.outcome = "null" => last.trace = <<>>
      /\ last.outcome = "null" <=> ~SomeRouteAccepts(last.path)

\* C25 as stated: on a matched route with a schema, validate runs exactly once
\* and before the handler, which runs exactly once; without a schema validate
\* does not run; on an unmatched path nothing runs.
C25_ValidateOnceThenHandlerOnce == InvocationOrder(TRUE)

\* C25 amended: the same, except that when validate returns a Promise it has
\* run once and the handler does not run.
C25_ValidateOnceThenHandlerUnlessAsync ==
    /\ InvocationOrder(~Verdict.promise)
    /\ (Resolved /\ last.outcome # "null" /\ HasSchema /\ Verdict.promise) =>
          last.trace = <<"validate">>

\* C25 witness: a route with a passing schema was matched: validate, then the
\* handler
C25_Witness ==
    /\ Resolved /\ last.matched.name = "userTab" /\ last.outcome = "route"
    /\ last.trace = <<"validate", "handler">>

\* C26: a handler of a route without a schema gets the raw query unchanged
\* when the route was created with an options object, and undefined when it
\* was created without one, whatever mapping the caller passed.
C26_OptionsObjectDecidesRawQuery ==
    (HandlerRan /\ ~HasSchema) =>
      LET raw == IF last.op = "getRoute" THEN queryParamsOf(last.query) ELSE last.query
      IN  /\ last.matched.options.given => last.hctx.query = raw
          /\ ~last.matched.options.given => last.hctx.query = Undefined
          /\ last.hctx.queryError = NoError

\* C26 witness: a route created without options was resolved with a non-empty
\* query and its handler saw none
C26_Witness ==
    /\ Resolved /\ last.matched.name = "home" /\ last.outcome = "route"
    /\ last.query = Obj(<<StrEntry("q", "x"), StrEntry("bad", "1")>>)
    /\ last.hctx.query = Undefined

\* query and queryError as the schema's answer to `input` decides them
DecidedBy(input) ==
    LET verdict == validate(last.matched.options.query, input)
    IN  IF verdict.issues.t = "undefined"
        THEN last.hctx.query = verdict.value /\ last.hctx.queryError = NoError
        ELSE last.hctx.query = Undefined /\ last.hctx.queryError = InvalidQuery

\* C29: getRoute called without a query validates {} with the route's schema,
\* a route handle called with no context validates undefined; the schema's
\* answer to that input decides query and queryError.
C29_OmittedQueryIsEmptyMapping ==
    (HandlerRan /\ HasSchema) =>
      /\ (last.op = "getRoute" /\ last.query = Undefined) => DecidedBy(EmptyObj)
      /\ (last.op = "invoke" /\ last.given = {}) => DecidedBy(Undefined)

\* C29 witness: the passing schema handed {} on to the handler of a getRoute
\* call without a query
C29_Witness ==
    /\ Resolved /\ last.matched.name = "userTab" /\ last.query = Undefined
    /\ last.outcome = "route" /\ last.hctx.query = EmptyObj

ResultKeys ==
    {"PageComponent", "LoadingComponent", "ErrorComponent", "params", "loader", "meta",
     "extra"}

\* C28: the result of getRoute has exactly the seven keys; another field the
\* handler returned is dropped and a params field the handler returned does
\* not replace the matcher's params.
C28_ResultHasExactlySevenKeys ==
    (Resolved /\ last.outcome = "route") =>
      LET response == handler(last.matched.handler, last.hctx)
      IN  /\ DOMAIN last.result = ResultKeys
          /\ last.result.params =
                getMatchParams(compilePattern(last.matched.path), splitPath(last.path))
          /\ response.params # Undefined => last.result.params # response.params
          /\ \A key \in ResultKeys \ {"params"} : last.result[key] = response[key]

\* C28 witness: the handler returned its own params and a title; the result
\* has the matcher's params and no title
C28_Witness ==
    /\ Resolved /\ last.outcome = "route" /\ last.matched.name = "user"
    /\ handler(last.matched.handler, last.hctx).params = StrayParams
    /\ handler(last.matched.handler, last.hctx).title = "Title"
    /\ last.result.params = Obj(<<ParamEntry(<<"id">>, <<"a%20b">>)>>)
    /\ "title" \notin DOMAIN last.result

\* C27: once a getRoute call has thrown the async-validation error, every
\* getRoute call returns what it returns on the router as built, and the
\* registry and the shared context are as they were built and configured.
C27_RouterUsableAfterThrow ==
    (Resolved /\ memo.call.outcome = "throw") =>
      /\ last = getRoute(createRouter(routes), EmptyObj, last.path, last.query)
      /\ internalRouter = createRouter(routes)
      /\ routerContext = EmptyObj
      /\ memo.call.error = AsyncError

\* C27 witness: after a call that threw, a call on another path returned a
\* route whose handler got the shared context
C27_Witness ==
    /\ Resolved /\ memo.call.outcome = "throw" /\ memo.between
    /\ last.path # memo.call.path
    /\ last.outcome = "route" /\ last.hctx.context = "shared"

\* the schema of the route an activation matched returns a Promise
AsyncRoute(c) ==
    /\ calls[c].route.found
    /\ calls[c].route.data.options.given
    /\ calls[c].route.data.options.query # "none"
    /\ validate(calls[c].route.data.options.query, queryParamsOf(calls[c].query)).promise

C30_FreshContextPerCall ==
    \A c \in Callers :
       (/\ calls[c].pc = "handled" \/ (calls[c].pc = "done" /\ calls[c].out.outcome = "route")
        /\ routerContext.t # "object") =>
            /\ calls[c].seen = EmptyObj
            /\ heap["shared"] = EmptyObj

\* C30 witness: both handlers ran, one after the other had written, and each
\* found its context empty
C30_Witness ==
    /\ \A c \in Callers : calls[c].pc = "done" /\ calls[c].out.outcome = "route"
                          /\ calls[c].seen = EmptyObj /\ heap[c] = Marked
    /\ calls["a"].overlapped

====
